---- MODULE Spec2Model ----
(***************************************************************************)
(* Model of plugins/auth-backend/src/providers/google/provider.ts:         *)
(*   - GoogleAuthProvider.handler / refresh / populateIdentity, run as     *)
(*     concurrent asynchronous builds on one provider instance;            *)
(*   - createPlugin of the scaffolder backend (second fragment of the      *)
(*     file), run once against a configuration and a NODE_ENV.             *)
(* External collaborators (passport strategy helpers, the catalog identity *)
(* client, the config reader, createRouter) are opaque: their answers are  *)
(* inputs, drawn from small sets when the awaiting call resumes.           *)
(***************************************************************************)
EXTENDS Integers, Sequences, FiniteSets, Bags, TLC

\* builds: the calls of handler()/refresh() in flight; log: the warnings the
\* logger received, each tagged with the build that wrote it; plugin: the
\* call of createPlugin
VARIABLES builds, log, plugin

vars == <<builds, log, plugin>>

(* ---------------------------- bounds ----------------------------------- *)

\* longest e-mail address (in characters) a profile carries
MaxEmailLen == 2

\* number of authentication builds in flight on the provider instance
NumBuilds == 2

(* ---------------------------- values ----------------------------------- *)

\* an optional value: absent (undefined) or present
None == <<>>
Some(x) == <<x>>
Get(o) == o[1]

Builds == 1..NumBuilds

\* characters of an e-mail address: an ordinary character and the separator
Chars == {"a", "@"}

\* strings are sequences of characters
Emails == UNION {[1..n -> Chars] : n \in 0..MaxEmailLen}

\* profile.email is optional
OptEmails == {None} \cup {Some(e) : e \in Emails}

\* user.metadata.name of the records the identity directory may answer with
Names == {<<>>, <<"u">>}

\* the rejection of identityClient.findUser; the catch block never inspects
\* it, it only goes into the warning
LookupErrors == {"NotFound"}

\* rejections of the passport helpers
LibErrors == {"HandshakeError"}

AccessTokens == {"at1"}
RefreshTokens == {"rt1"}

\* params of the token endpoint: id_token, scope, expires_in
Params == {[id_token |-> "idt", scope |-> "email", expires_in |-> 3600]}

Profiles == {[email |-> e, displayName |-> "n"] : e \in OptEmails}

ProviderInfos ==
  {[accessToken |-> a, idToken |-> p.id_token, scope |-> p.scope,
    expiresInSeconds |-> p.expires_in] : a \in AccessTokens, p \in Params}

\* OAuthResponse values the verify callback of the strategy passes to done()
Responses ==
  {[providerInfo |-> pi, profile |-> pr, backstageIdentity |-> None] :
     pi \in ProviderInfos, pr \in Profiles}

PrivateInfos == {[refreshToken |-> r] : r \in RefreshTokens}

MissingEmailError == "Google profile contained no email"

(* ------------------------ pure helpers --------------------------------- *)

\* String.prototype.split(sep) for a one-character separator
RECURSIVE Split(_, _)
Split(s, sep) ==
  IF \A i \in 1..Len(s) : s[i] # sep
    THEN <<s>>
    ELSE LET i == CHOOSE k \in 1..Len(s) :
                    s[k] = sep /\ \A j \in 1..(k - 1) : s[j] # sep
         IN  <<SubSeq(s, 1, i - 1)>> \o Split(SubSeq(s, i + 1, Len(s)), sep)

\* mutant: the last segment instead of the first
LocalPartLast(email) == Split(email, "@")[Len(Split(email, "@"))]

\* profile.email.split('@')[0]
LocalPart(email) == Split(email, "@")[1]

\* mutant: only an absent e-mail is rejected, an empty one passes
EmailMissingUndefinedOnly(profile) == profile.email = None

\* !profile.email : undefined and '' are both falsy
EmailMissing(profile) ==
  profile.email = None \/ profile.email = Some(<<>>)

\* mutant: the spread forgets the profile's e-mail
WithIdentityDropEmail(response, id) ==
  [response EXCEPT !.backstageIdentity = Some([id |-> id]),
                   !.profile.email = None]

\* { ...response, backstageIdentity: { id } }
WithIdentity(response, id) ==
  [response EXCEPT !.backstageIdentity = Some([id |-> id])]

\* the response refresh() assembles from the refreshed token and the profile
RefreshResponse(accessToken, params, profile) ==
  [providerInfo |-> [accessToken |-> accessToken,
                     idToken |-> params.id_token,
                     expiresInSeconds |-> params.expires_in,
                     scope |-> params.scope],
   profile |-> profile,
   backstageIdentity |-> None]

(* ------------------------ state ---------------------------------------- *)

\* one call of handler() or refresh(): its position and its local variables
IdleBuild ==
  [op |-> "none", pc |-> "idle",
   accessToken |-> None, params |-> None,
   response |-> None, privateInfo |-> None,
   findUserCalls |-> 0, query |-> None,
   user |-> None, caught |-> None,
   libError |-> None,
   result |-> None, error |-> None]

\* createPlugin before it is called
PluginIdle ==
  [pc |-> "notStarted", env |-> None,
   templaters |-> {}, preparers |-> {}, publishers |-> {},
   warnings |-> <<>>, error |-> None]

Init ==
  /\ builds = [b \in Builds |-> IdleBuild]
  /\ log = EmptyBag
  /\ plugin = PluginIdle

(* ------------------- GoogleAuthProvider -------------------------------- *)

Set(b, rec) == builds' = [builds EXCEPT ![b] = rec]

\* the synchronous head of populateIdentity(response), entered from
\* handler() or refresh(): the e-mail check, then the call of findUser
PopulateIdentity(b, frame, response) ==
  IF EmailMissing(response.profile)
    THEN Set(b, [frame EXCEPT !.response = Some(response),
                              !.pc = "threw",
                              !.error = Some(MissingEmailError)])
    ELSE Set(b, [frame EXCEPT !.response = Some(response),
                              !.pc = "findUser",
                              !.findUserCalls = @ + 1,
                              !.query = Some(Get(response.profile.email))])

\* handler(req): await executeFrameHandlerStrategy(req, this._strategy)
HandlerStart(b) ==
  /\ builds[b].pc = "idle"
  /\ Set(b, [builds[b] EXCEPT !.op = "handler", !.pc = "frame"])
  /\ UNCHANGED <<log, plugin>>

\* the frame handshake resolves with { response, privateInfo }
FrameResolved(b) ==
  /\ builds[b].pc = "frame"
  /\ \E response \in Responses, privateInfo \in PrivateInfos :
       PopulateIdentity(b,
         [builds[b] EXCEPT !.privateInfo = Some(privateInfo)], response)
  /\ UNCHANGED <<log, plugin>>

\* the frame handshake rejects: handler() rejects with the same error
FrameRejected(b) ==
  /\ builds[b].pc = "frame"
  /\ \E e \in LibErrors :
       Set(b, [builds[b] EXCEPT !.pc = "threw", !.libError = Some(e),
                                !.error = Some(e)])
  /\ UNCHANGED <<log, plugin>>

\* refresh(req): await executeRefreshTokenStrategy(...)
RefreshStart(b) ==
  /\ builds[b].pc = "idle"
  /\ Set(b, [builds[b] EXCEPT !.op = "refresh", !.pc = "refreshToken"])
  /\ UNCHANGED <<log, plugin>>

\* the token refresh resolves with { accessToken, params }; then
\* await executeFetchUserProfileStrategy(...)
RefreshTokenResolved(b) ==
  /\ builds[b].pc = "refreshToken"
  /\ \E accessToken \in AccessTokens, params \in Params :
       Set(b, [builds[b] EXCEPT !.accessToken = Some(accessToken),
                                !.params = Some(params),
                                !.pc = "fetchProfile"])
  /\ UNCHANGED <<log, plugin>>

RefreshTokenRejected(b) ==
  /\ builds[b].pc = "refreshToken"
  /\ \E e \in LibErrors :
       Set(b, [builds[b] EXCEPT !.pc = "threw", !.libError = Some(e),
                                !.error = Some(e)])
  /\ UNCHANGED <<log, plugin>>

\* the profile fetch resolves: refresh() returns this.populateIdentity({...})
FetchProfileResolved(b) ==
  /\ builds[b].pc = "fetchProfile"
  /\ \E profile \in Profiles :
       PopulateIdentity(b, builds[b],
         RefreshResponse(Get(builds[b].accessToken), Get(builds[b].params),
                         profile))
  /\ UNCHANGED <<log, plugin>>

\* mutant: a failed profile fetch is swallowed and an empty profile used
FetchProfileRejectedSwallowed(b) ==
  /\ builds[b].pc = "fetchProfile"
  /\ \E e \in LibErrors :
       PopulateIdentity(b, [builds[b] EXCEPT !.libError = Some(e)],
         RefreshResponse(Get(builds[b].accessToken), Get(builds[b].params),
                         [email |-> None, displayName |-> "n"]))
  /\ UNCHANGED <<log, plugin>>

FetchProfileRejected(b) ==
  /\ builds[b].pc = "fetchProfile"
  /\ \E e \in LibErrors :
       Set(b, [builds[b] EXCEPT !.pc = "threw", !.libError = Some(e),
                                !.error = Some(e)])
  /\ UNCHANGED <<log, plugin>>

\* what handler() / refresh() resolve with
Returned(frame, response) ==
  [response |-> response,
   refreshToken |-> IF frame.op = "handler"
                      THEN Some(Get(frame.privateInfo).refreshToken)
                      ELSE None]

\* mutant: the try block returns the e-mail fallback instead of the record
FindUserResolvedFallback(b) ==
  /\ builds[b].pc = "findUser"
  /\ \E name \in Names :
       LET user  == [metadata |-> [name |-> name]]
           frame == [builds[b] EXCEPT !.user = Some(user)]
           resp  == Get(frame.response)
       IN  Set(b, [frame EXCEPT
             !.pc = "returned",
             !.result = Some(Returned(frame,
                WithIdentity(resp, LocalPart(Get(resp.profile.email)))))])
  /\ UNCHANGED <<log, plugin>>

\* findUser resolves with a record: backstageIdentity.id = user.metadata.name
FindUserResolved(b) ==
  /\ builds[b].pc = "findUser"
  /\ \E name \in Names :
       LET user  == [metadata |-> [name |-> name]]
           frame == [builds[b] EXCEPT !.user = Some(user)]
       IN  Set(b, [frame EXCEPT
             !.pc = "returned",
             !.result = Some(Returned(frame,
                WithIdentity(Get(frame.response), user.metadata.name)))])
  /\ UNCHANGED <<log, plugin>>

\* mutant: a failed lookup is retried once before falling back
FindUserRejectedRetry(b) ==
  /\ builds[b].pc = "findUser"
  /\ \E e \in LookupErrors :
       IF builds[b].findUserCalls < 2
         THEN /\ Set(b, [builds[b] EXCEPT !.findUserCalls = @ + 1])
              /\ UNCHANGED log
         ELSE LET frame == [builds[b] EXCEPT !.caught = Some(e)]
                  resp  == Get(frame.response)
              IN  /\ log' = log (+) SetToBag({[by |-> b, error |-> e]})
                  /\ Set(b, [frame EXCEPT
                       !.pc = "returned",
                       !.result = Some(Returned(frame,
                          WithIdentity(resp,
                            LocalPart(Get(resp.profile.email)))))])
  /\ UNCHANGED plugin

\* mutant: the profile is kept on the provider instance, so the catch block
\* reads whichever build's profile was stored last
FindUserRejectedShared(b) ==
  /\ builds[b].pc = "findUser"
  /\ \E e \in LookupErrors, o \in Builds :
       /\ builds[o].response # None
       /\ ~EmailMissing(Get(builds[o].response).profile)
       /\ LET frame == [builds[b] EXCEPT !.caught = Some(e)]
              resp  == Get(frame.response)
              seen  == Get(builds[o].response)
          IN  /\ log' = log (+) SetToBag({[by |-> b, error |-> e]})
              /\ Set(b, [frame EXCEPT
                   !.pc = "returned",
                   !.result = Some(Returned(frame,
                      WithIdentity(resp,
                        LocalPart(Get(seen.profile.email)))))])
  /\ UNCHANGED plugin

\* mutant: refresh() resolves the fallback identity by its own rule, the
\* whole e-mail address
FindUserRejectedByOp(b) ==
  /\ builds[b].pc = "findUser"
  /\ \E e \in LookupErrors :
       LET frame == [builds[b] EXCEPT !.caught = Some(e)]
           resp  == Get(frame.response)
           email == Get(resp.profile.email)
       IN  /\ log' = log (+) SetToBag({[by |-> b, error |-> e]})
           /\ Set(b, [frame EXCEPT
                !.pc = "returned",
                !.result = Some(Returned(frame,
                   WithIdentity(resp, IF frame.op = "refresh" THEN email
                                      ELSE LocalPart(email))))])
  /\ UNCHANGED plugin

\* findUser rejects: the catch block warns once and falls back to the
\* local part of the e-mail
FindUserRejected(b) ==
  /\ builds[b].pc = "findUser"
  /\ \E e \in LookupErrors :
       LET frame == [builds[b] EXCEPT !.caught = Some(e)]
           resp  == Get(frame.response)
       IN  /\ log' = log (+) SetToBag({[by |-> b, error |-> e]})
           /\ Set(b, [frame EXCEPT
                !.pc = "returned",
                !.result = Some(Returned(frame,
                   WithIdentity(resp, LocalPart(Get(resp.profile.email)))))])
  /\ UNCHANGED plugin

Next ==
  \E b \in Builds :
    \/ HandlerStart(b)
    \/ FrameResolved(b)
    \/ FrameRejected(b)
    \/ RefreshStart(b)
    \/ RefreshTokenResolved(b)
    \/ RefreshTokenRejected(b)
    \/ FetchProfileResolved(b)
    \/ FetchProfileRejected(b)
    \/ FindUserResolved(b)
    \/ FindUserRejected(b)

Spec == Init /\ [][Next]_vars

(* ----------------------- createPlugin ---------------------------------- *)

\* values of process.env.NODE_ENV: unset, or one of the usual three
NodeEnvs == {None, Some("development"), Some("production"), Some("test")}

\* scaffolder.github: the section is optional, its keys may be absent
GithubConfigs ==
  {None} \cup {Some([visibility |-> v, token |-> t]) : v, t \in BOOLEAN}

\* scaffolder.gitlab.api
GitlabConfigs == {None} \cup {Some([token |-> t]) : t \in BOOLEAN}

\* scaffolder.azure, with its api sub-section; apiUp: whether
\* webApi.getGitApi() resolves
AzureConfigs ==
  {None} \cup {Some([baseUrl |-> u, api |-> a, token |-> t, apiUp |-> g]) :
                  u, a, t, g \in BOOLEAN}

PluginEnvs ==
  {[nodeEnv |-> n, github |-> gh, gitlab |-> gl, azure |-> az] :
     n \in NodeEnvs, gh \in GithubConfigs, gl \in GitlabConfigs,
     az \in AzureConfigs}

\* the first failure inside the try block of each provider, None when the
\* block runs to its end
GithubFailure(c) ==
  IF ~c.visibility THEN Some("visibility")
  ELSE IF ~c.token THEN Some("token")
  ELSE None

GitlabFailure(c) == IF ~c.token THEN Some("token") ELSE None

AzureFailure(c) ==
  IF ~c.baseUrl THEN Some("baseUrl")
  ELSE IF ~c.api THEN Some("api")
  ELSE IF ~c.token THEN Some("token")
  ELSE IF ~c.apiUp THEN Some("getGitApi")
  ELSE None

\* mutant: only a production build rethrows
RethrowsProductionOnly(nodeEnv) == nodeEnv = Some("production")

\* process.env.NODE_ENV !== 'development'
Rethrows(nodeEnv) == nodeEnv # Some("development")

\* the catch block shared by the three providers
CatchProvider(providerName, failure, next) ==
  IF Rethrows(Get(plugin.env).nodeEnv)
    THEN plugin' = [plugin EXCEPT
           !.pc = "threw",
           !.error = Some([provider |-> providerName, cause |-> failure])]
    ELSE plugin' = [plugin EXCEPT
           !.pc = next,
           !.warnings = Append(@, [provider |-> providerName,
                                   cause |-> failure])]

\* createPlugin({ logger, config }): templaters and the preparers that need
\* no credentials are registered first
CreatePlugin ==
  /\ plugin.pc = "notStarted"
  /\ \E env \in PluginEnvs :
       plugin' = [plugin EXCEPT
         !.pc = "github",
         !.env = Some(env),
         !.templaters = {"cookiecutter", "cra"},
         !.preparers = {"file", "gitlab", "gitlab/api", "azure/api"}]
  /\ UNCHANGED <<builds, log>>

GithubSection ==
  /\ plugin.pc = "github"
  /\ LET c == Get(plugin.env).github IN
       IF c = None
         THEN plugin' = [plugin EXCEPT !.pc = "gitlab"]
         ELSE IF GithubFailure(Get(c)) = None
           THEN plugin' = [plugin EXCEPT
                  !.pc = "gitlab",
                  !.preparers = @ \cup {"github"},
                  !.publishers = @ \cup {"file", "github"}]
           ELSE CatchProvider("github", Get(GithubFailure(Get(c))), "gitlab")
  /\ UNCHANGED <<builds, log>>

GitlabSection ==
  /\ plugin.pc = "gitlab"
  /\ LET c == Get(plugin.env).gitlab IN
       IF c = None
         THEN plugin' = [plugin EXCEPT !.pc = "azure"]
         ELSE IF GitlabFailure(Get(c)) = None
           THEN plugin' = [plugin EXCEPT
                  !.pc = "azure",
                  !.publishers = @ \cup {"gitlab", "gitlab/api"}]
           ELSE CatchProvider("gitlab", Get(GitlabFailure(Get(c))), "azure")
  /\ UNCHANGED <<builds, log>>

AzureSection ==
  /\ plugin.pc = "azure"
  /\ LET c == Get(plugin.env).azure IN
       IF c = None
         THEN plugin' = [plugin EXCEPT !.pc = "router"]
         ELSE IF AzureFailure(Get(c)) = None
           THEN plugin' = [plugin EXCEPT
                  !.pc = "router",
                  !.publishers = @ \cup {"azure/api"}]
           ELSE CatchProvider("azure", Get(AzureFailure(Get(c))), "router")
  /\ UNCHANGED <<builds, log>>

\* return await createRouter({ preparers, templaters, publishers, ... })
CreateRouter ==
  /\ plugin.pc = "router"
  /\ plugin' = [plugin EXCEPT !.pc = "done"]
  /\ UNCHANGED <<builds, log>>

NextPlugin ==
  \/ CreatePlugin
  \/ GithubSection
  \/ GitlabSection
  \/ AzureSection
  \/ CreateRouter

SpecPlugin == Init /\ [][NextPlugin]_vars

(* ----------------------- properties ------------------------------------ *)

Final(b) == builds[b].pc \in {"returned", "threw"}

\* number of warnings the logger received from build b
RECURSIVE Copies(_)
Copies(entries) ==
  IF entries = {} THEN 0
  ELSE LET x == CHOOSE y \in entries : TRUE
       IN  CopiesIn(x, log) + Copies(entries \ {x})

Warnings(b) == Copies({x \in BagToSet(log) : x.by = b})

\* the e-mail of the response build b passed to populateIdentity
EmailOf(b) == Get(builds[b].response).profile.email

\* the profile carries an e-mail: present and not the empty string
HasEmail(b) ==
  /\ builds[b].response # None
  /\ EmailOf(b) # None
  /\ Get(EmailOf(b)) # <<>>

\* backstageIdentity.id of the response build b returned
IdentityId(b) == Get(Get(builds[b].result).response.backstageIdentity).id

\* p is the part of s before its first '@' (all of s when it has none)
BeforeFirstAt(p, s) ==
  /\ Len(p) <= Len(s)
  /\ \A i \in 1..Len(p) : p[i] = s[i] /\ p[i] # "@"
  /\ Len(p) = Len(s) \/ s[Len(p) + 1] = "@"

\* C1: every response returned for a profile with a non-empty e-mail has a
\* non-empty identity id, whatever the directory lookup answered.
IdentityIdNonEmpty ==
  \A b \in Builds :
    (builds[b].pc = "returned" /\ HasEmail(b)) => IdentityId(b) # <<>>

\* C2: a response whose profile e-mail is empty or absent makes the build
\* fail with the missing-email error, without any call of findUser and
\* without any warning.
MissingEmailFailsFast ==
  \A b \in Builds :
    (builds[b].response # None /\ ~HasEmail(b)) =>
       /\ builds[b].pc = "threw"
       /\ builds[b].error = Some(MissingEmailError)
       /\ builds[b].result = None
       /\ builds[b].findUserCalls = 0
       /\ Warnings(b) = 0

MissingEmailWitness ==
  \E b1, b2 \in Builds :
    /\ builds[b1].pc = "threw" /\ builds[b1].response # None
    /\ EmailOf(b1) = None
    /\ builds[b2].pc = "threw" /\ builds[b2].response # None
    /\ EmailOf(b2) = Some(<<>>)

\* C3: when findUser resolves with a record, the returned identity id is the
\* record's name and no warning is logged by that build.
DirectoryResultWins ==
  \A b \in Builds :
    builds[b].user # None =>
       /\ builds[b].pc = "returned"
       /\ IdentityId(b) = Get(builds[b].user).metadata.name
       /\ Warnings(b) = 0

DirectoryResultWitness ==
  \E b \in Builds :
    /\ builds[b].user # None
    /\ builds[b].pc = "returned"
    /\ IdentityId(b) = <<"u">>
    /\ EmailOf(b) = Some(<<"a", "@">>)

\* C4: when findUser rejects, the build still returns: the identity id is
\* the part of the e-mail before the first '@' and exactly one warning is
\* logged by that build.
FallbackOnLookupFailure ==
  \A b \in Builds :
    builds[b].caught # None =>
       /\ builds[b].pc = "returned"
       /\ builds[b].error = None
       /\ BeforeFirstAt(IdentityId(b), Get(EmailOf(b)))
       /\ Warnings(b) = 1

FallbackWitness ==
  \E b \in Builds :
    /\ builds[b].caught = Some("NotFound")
    /\ builds[b].pc = "returned"
    /\ EmailOf(b) = Some(<<"a", "@">>)
    /\ IdentityId(b) = <<"a">>

\* C5: a call ends either with a response whose provider info, profile and
\* identity are all present, or with an error, never both; a rejection of
\* the OAuth library reaches the caller unchanged, with no directory lookup,
\* no warning and no response.
CompleteResponseOrError ==
  \A b \in Builds :
    /\ builds[b].pc = "returned" =>
         /\ builds[b].error = None
         /\ builds[b].result # None
         /\ Get(builds[b].result).response.providerInfo \in ProviderInfos
         /\ Get(builds[b].result).response.profile \in Profiles
         /\ Get(builds[b].result).response.backstageIdentity # None
    /\ builds[b].pc = "threw" =>
         builds[b].error # None /\ builds[b].result = None
    /\ ~Final(b) => builds[b].error = None /\ builds[b].result = None
    /\ builds[b].libError # None =>
         /\ builds[b].pc = "threw"
         /\ builds[b].error = builds[b].libError
         /\ builds[b].result = None
         /\ builds[b].findUserCalls = 0
         /\ Warnings(b) = 0

LibraryFailureWitness ==
  \E b1, b2 \in Builds :
    /\ builds[b1].op = "refresh"
    /\ builds[b1].accessToken # None
    /\ builds[b1].libError # None
    /\ builds[b1].pc = "threw"
    /\ builds[b2].op = "handler"
    /\ builds[b2].pc = "returned"

\* C6: a build whose profile has an e-mail calls findUser exactly once, and
\* returns only after that call has resolved or rejected.
SingleLookupBeforeResponse ==
  \A b \in Builds :
    HasEmail(b) =>
       /\ builds[b].findUserCalls = 1
       /\ builds[b].query = EmailOf(b)
       /\ builds[b].pc = "findUser" =>
            /\ builds[b].result = None
            /\ builds[b].user = None
            /\ builds[b].caught = None
       /\ builds[b].result # None =>
            (builds[b].user # None) # (builds[b].caught # None)

SingleLookupWitness ==
  \E b \in Builds :
    /\ HasEmail(b)
    /\ builds[b].caught # None
    /\ builds[b].pc = "returned"
    /\ builds[b].findUserCalls = 1

\* C7: two builds given the same response, whose lookups were answered the
\* same way (the same record, or a failure), return the same identity id.
SameInputSameIdentity ==
  \A b1, b2 \in Builds :
    (/\ builds[b1].pc = "returned"
     /\ builds[b2].pc = "returned"
     /\ builds[b1].response = builds[b2].response
     /\ builds[b1].user = builds[b2].user) =>
       IdentityId(b1) = IdentityId(b2)

SameInputWitness ==
  \E b1, b2 \in Builds :
    /\ b1 # b2
    /\ builds[b1].pc = "returned"
    /\ builds[b2].pc = "returned"
    /\ builds[b1].op # builds[b2].op
    /\ builds[b1].response = builds[b2].response
    /\ builds[b1].caught = Some("NotFound")
    /\ builds[b2].caught = Some("NotFound")
    /\ IdentityId(b1) = <<"a">>
    /\ EmailOf(b1) = Some(<<"a", "@">>)

\* C8: with builds interleaved in any order, the outcome of each build is
\* derived from its own response and the answer to its own lookup only.
BuildsIndependent ==
  \A b \in Builds :
    /\ builds[b].pc = "returned" =>
         LET own == Get(builds[b].response)
             out == Get(builds[b].result)
         IN  /\ out.response.profile = own.profile
             /\ out.response.providerInfo = own.providerInfo
             /\ IF builds[b].user # None
                  THEN IdentityId(b) = Get(builds[b].user).metadata.name
                  ELSE BeforeFirstAt(IdentityId(b), Get(own.profile.email))
             /\ builds[b].op = "handler" =>
                  out.refreshToken =
                    Some(Get(builds[b].privateInfo).refreshToken)
    /\ builds[b].pc = "threw" =>
         \/ builds[b].libError # None /\ builds[b].error = builds[b].libError
         \/ /\ builds[b].libError = None
            /\ builds[b].response # None
            /\ ~HasEmail(b)
            /\ builds[b].error = Some(MissingEmailError)
    /\ \A x \in BagToSet(log) :
         x.by = b => builds[b].caught = Some(x.error)

InterleavedWitness ==
  \E b1, b2 \in Builds :
    /\ builds[b1].pc = "returned"
    /\ builds[b1].caught # None
    /\ EmailOf(b1) = Some(<<"a", "@">>)
    /\ IdentityId(b1) = <<"a">>
    /\ builds[b2].pc = "findUser"
    /\ EmailOf(b2) = Some(<<"@", "a">>)

\* C10: the step that returns keeps the provider info and the profile of the
\* response it was given, leaves that response itself untouched, and in
\* handler() passes on the refresh token of the handshake.
ResponseFramePreserved ==
  [][\A b \in Builds :
       (builds[b].pc = "findUser" /\ builds'[b].pc = "returned") =>
          LET given == Get(builds[b].response)
              out   == Get(builds'[b].result)
          IN  /\ out.response.providerInfo = given.providerInfo
              /\ out.response.profile = given.profile
              /\ builds'[b].response = builds[b].response
              /\ given.backstageIdentity = None
              /\ builds[b].op = "handler" =>
                   out.refreshToken =
                     Some(Get(builds[b].privateInfo).refreshToken)]_vars

FramePreservedWitness ==
  \E b1, b2 \in Builds :
    /\ builds[b1].op = "handler"
    /\ builds[b1].pc = "returned"
    /\ builds[b1].caught # None
    /\ Get(builds[b1].result).refreshToken = Some("rt1")
    /\ builds[b2].pc = "returned"
    /\ builds[b2].user # None

(* createPlugin *)

PluginFinished == plugin.pc \in {"done", "threw"}

Providers == {"github", "gitlab", "azure"}

\* providers whose section is present but whose token is absent
CredentialsAbsent(env) ==
  {p \in Providers :
     \/ p = "github" /\ env.github # None /\ ~Get(env.github).token
     \/ p = "gitlab" /\ env.gitlab # None /\ ~Get(env.gitlab).token
     \/ /\ p = "azure" /\ env.azure # None
        /\ ~Get(env.azure).api \/ ~Get(env.azure).token}

\* providers whose try block fails, for whatever cause
Failing(env) ==
  {p \in Providers :
     \/ p = "github" /\ env.github # None
          /\ GithubFailure(Get(env.github)) # None
     \/ p = "gitlab" /\ env.gitlab # None
          /\ GitlabFailure(Get(env.gitlab)) # None
     \/ p = "azure" /\ env.azure # None
          /\ AzureFailure(Get(env.azure)) # None}

\* providers whose section is present and whose try block runs to its end
Healthy(env) ==
  {p \in Providers :
     /\ p \notin Failing(env)
     /\ \/ p = "github" /\ env.github # None
        \/ p = "gitlab" /\ env.gitlab # None
        \/ p = "azure" /\ env.azure # None}

PublishersOf(p) ==
  IF p = "github" THEN {"file", "github"}
  ELSE IF p = "gitlab" THEN {"gitlab", "gitlab/api"}
  ELSE {"azure/api"}

WarningsFor(p) ==
  Cardinality({i \in DOMAIN plugin.warnings : plugin.warnings[i].provider = p})

\* C9 as stated: with a provider's credentials absent, createPlugin never
\* fails, whatever NODE_ENV is: it warns, skips and creates the router.
CreatePluginNeverFails ==
  (PluginFinished /\ CredentialsAbsent(Get(plugin.env)) # {}) =>
     /\ plugin.pc = "done"
     /\ plugin.error = None

\* C9 amended: with a provider's credentials absent, createPlugin warns,
\* skips that provider, initialises the others and creates the router when
\* NODE_ENV is 'development'; under any other NODE_ENV it fails at the first
\* failing provider, without a warning and without creating the router.
CreatePluginSkipsOnlyInDevelopment ==
  (PluginFinished /\ CredentialsAbsent(Get(plugin.env)) # {}) =>
     LET env == Get(plugin.env) IN
       IF env.nodeEnv = Some("development")
         THEN /\ plugin.pc = "done"
              /\ plugin.error = None
              /\ \A p \in CredentialsAbsent(env) :
                   /\ WarningsFor(p) = 1
                   /\ PublishersOf(p) \cap plugin.publishers = {}
              /\ \A p \in Healthy(env) :
                   PublishersOf(p) \subseteq plugin.publishers
         ELSE /\ plugin.pc = "threw"
              /\ plugin.error # None
              /\ Get(plugin.error).provider \in Failing(env)
              /\ plugin.warnings = <<>>

CreatePluginWitness ==
  /\ plugin.pc = "done"
  /\ Get(plugin.env).nodeEnv = Some("development")
  /\ CredentialsAbsent(Get(plugin.env)) = {"gitlab"}
  /\ Healthy(Get(plugin.env)) = {"github", "azure"}
  /\ Len(plugin.warnings) = 1

====
